---- MODULE Spec2Model ----
(***************************************************************************)
(* Model of 22_instance_segmentation_ultralytics/instance_segmentation.py  *)
(*                                                                         *)
(* Spec     : main(), the capture / detect / annotate / display / record   *)
(*            loop with its windowed FPS estimate, one action per stage.   *)
(*                                                                         *)
(* SpecVis  : one call of custom_visualization(frame, results, mask_alpha) *)
(*            on a small frame, one action per statement group.            *)
(*                                                                         *)
(* Times are integers counted in clock ticks, TicksPerUnit ticks to one    *)
(* second.  fps_display is kept as the exact fraction frame_count /        *)
(* elapsed_time, as the record [n |-> frames, d |-> elapsed ticks].        *)
(***************************************************************************)
EXTENDS Integers, Sequences, FiniteSets, TLC

\* ------------------------------------------------------------------ bounds
\* longest video source considered (frames before end-of-stream)
MaxFrames == 3
\* clock resolution: ticks per second
TicksPerUnit == 2
\* the wall clock is followed up to this tick
MaxClock == 5
\* largest advance of the wall clock between two readings of it
MaxStep == 2

\* --------------------------------------------------------------- variables
VARIABLES
    pc,             \* position of main()
    argv,           \* switches given on the command line
    args,           \* the parsed namespace
    open_ok,        \* whether the video source can be opened
    source_len,     \* frames the source yields before end-of-stream
    cap,            \* "none" | "opened" | "closed" | "released"
    frames_read,    \* successful cap.read() calls
    output_writer,  \* "None" | "open" | "released"
    clock,          \* wall clock, in ticks
    frame_count, start_time, elapsed_time, fps_display,
    calls,          \* how often each collaborator operation was invoked
    quit,           \* waitKey returned 'q'
    window_from,    \* observer: frames read before the current FPS window
    stdout,         \* messages printed
    main_annotated_frame,  \* main()'s annotated_frame: what it shows of which capture
    displayed,      \* frames cv2.imshow has shown, in order
    recorded,       \* frames output_writer.write has taken, in order
    \* custom_visualization(frame, results, mask_alpha)
    vpc,            \* position inside custom_visualization
    frame,          \* argument: the original frame
    results,        \* argument: [masks_none, dets, names] of results[0]
    mask_alpha,     \* argument: the fraction [n, d]
    rng,            \* state of numpy's global random generator
    rng_entry,      \* observer: that state when custom_visualization was called
    annotated_frame, colors, i, color, mask_binary, label,
    blend_src,      \* first operand of the last cv2.addWeighted call
    ret,            \* the returned frame
    verr            \* exception raised by custom_visualization

sinkVars == <<main_annotated_frame, displayed, recorded>>

mainVars == <<pc, argv, args, open_ok, source_len, cap, frames_read,
              output_writer, clock, frame_count, start_time, elapsed_time,
              fps_display, calls, quit, window_from, stdout, sinkVars>>

visVars == <<vpc, frame, results, mask_alpha, rng, rng_entry, annotated_frame,
             colors, i, color, mask_binary, label, blend_src, ret, verr>>

vars == <<mainVars, visVars>>

Min(a, b) == IF a <= b THEN a ELSE b

\* n/d (d > 0) rounded to the nearest integer, ties to the even one: cvRound,
\* and the rounding of a format specification such as .1f
RoundHalfEven(n, d) ==
    LET q == n \div d
        r == n % d
    IN  IF 2 * r < d THEN q
        ELSE IF 2 * r > d THEN q + 1
        ELSE IF q % 2 = 0 THEN q ELSE q + 1

\* ---------------------------------------------------------- parse_arguments
Switches == {"--save", "--show-fps", "--show-labels", "--show-conf",
             "--custom-visualization"}

\* store_true switches: the value is TRUE when the switch is given and the
\* default otherwise; --show-labels and --show-conf have default=True.
parse_arguments(av) ==
    [save                 |-> "--save" \in av,
     show_fps             |-> "--show-fps" \in av,
     show_labels          |-> IF "--show-labels" \in av THEN TRUE ELSE TRUE,
     show_conf            |-> IF "--show-conf" \in av THEN TRUE ELSE TRUE,
     custom_visualization |-> "--custom-visualization" \in av]

\* ------------------------------------------------------------ FPS estimate
ZeroFps == [n |-> 0, d |-> TicksPerUnit]

\* FpsTick with the rate refreshed on every frame instead of once a window
FpsTick_EveryFrame(fc, st, disp, now1, now2) ==
    LET count   == fc + 1
        elapsed == now1 - st
    IN  IF elapsed >= TicksPerUnit
        THEN [frame_count |-> 0, start_time |-> now2,
              fps_display |-> [n |-> count, d |-> elapsed],
              elapsed_time |-> elapsed]
        ELSE [frame_count |-> count, start_time |-> st,
              fps_display |-> [n |-> count, d |-> IF elapsed = 0 THEN 1 ELSE elapsed],
              elapsed_time |-> elapsed]

\* lines 180-185.  now1 is the clock read at line 181, now2 the clock read
\* at line 185 (only read when the window has elapsed).
FpsTick(fc, st, disp, now1, now2) ==
    LET count   == fc + 1
        elapsed == now1 - st
    IN  IF elapsed >= TicksPerUnit
        THEN [frame_count |-> 0, start_time |-> now2,
              fps_display |-> [n |-> count, d |-> elapsed],
              elapsed_time |-> elapsed]
        ELSE [frame_count |-> count, start_time |-> st,
              fps_display |-> disp, elapsed_time |-> elapsed]

\* ----------------------------------------------------------------- main()
\* custom_visualization is not running
VisIdle ==
    /\ vpc = "idle"
    /\ frame = <<>>
    /\ results = <<>>
    /\ mask_alpha = [n |-> 0, d |-> 1]
    /\ rng = 0
    /\ rng_entry = 0
    /\ annotated_frame = <<>>
    /\ colors = <<>>
    /\ i = 0
    /\ color = <<>>
    /\ mask_binary = <<>>
    /\ label = <<>>
    /\ blend_src = <<>>
    /\ ret = <<>>
    /\ verr = "none"

\* annotated_frame is not bound yet; overlay holds the FPS text drawn, if any
NoFrame == [src |-> 0, overlay |-> <<>>]

\* f"FPS: {fps_display:.1f}": the rate in tenths of a frame per second
Format1f(disp) == RoundHalfEven(10 * disp.n * TicksPerUnit, disp.d)

NoCalls == [read |-> 0, detect |-> 0, annotate |-> 0, overlay |-> 0, show |-> 0,
            write |-> 0, poll |-> 0, cap_release |-> 0, writer_release |-> 0]

Called(op) == [calls EXCEPT ![op] = @ + 1]

Init ==
    /\ pc = "open"
    /\ argv \in SUBSET Switches
    /\ args = parse_arguments(argv)
    /\ open_ok \in BOOLEAN
    /\ source_len \in 0..MaxFrames
    /\ cap = "none"
    /\ frames_read = 0
    /\ output_writer = "None"
    /\ clock = 0
    /\ frame_count = 0
    /\ start_time = 0
    /\ elapsed_time = 0
    /\ fps_display = ZeroFps
    /\ calls = NoCalls
    /\ quit = FALSE
    /\ window_from = 0
    /\ stdout = {}
    /\ main_annotated_frame = NoFrame
    /\ displayed = <<>>
    /\ recorded = <<>>
    /\ VisIdle

\* lines 143-144
OpenSource ==
    /\ pc = "open"
    /\ cap' = IF open_ok THEN "opened" ELSE "closed"
    /\ stdout' = stdout \cup {"Opening video source"}
    /\ pc' = "check_open"
    /\ UNCHANGED visVars
    /\ UNCHANGED sinkVars
    /\ UNCHANGED <<window_from, argv, args, open_ok, source_len, frames_read, output_writer,
                   clock, frame_count, start_time, elapsed_time, fps_display,
                   calls, quit>>

\* CheckOpened with the early return left out
CheckOpened_NoReturn ==
    /\ pc = "check_open"
    /\ IF cap # "opened"
       THEN stdout' = stdout \cup {"Error: Could not open video source"}
       ELSE stdout' = stdout
    /\ pc' = "writer"
    /\ UNCHANGED visVars
    /\ UNCHANGED sinkVars
    /\ UNCHANGED <<window_from, argv, args, open_ok, source_len, cap, frames_read,
                   output_writer, clock, frame_count, start_time,
                   elapsed_time, fps_display, calls, quit>>

\* lines 146-148
CheckOpened ==
    /\ pc = "check_open"
    /\ IF cap # "opened"
       THEN /\ stdout' = stdout \cup {"Error: Could not open video source"}
            /\ pc' = "done"
       ELSE /\ stdout' = stdout
            /\ pc' = "writer"
    /\ UNCHANGED visVars
    /\ UNCHANGED sinkVars
    /\ UNCHANGED <<window_from, argv, args, open_ok, source_len, cap, frames_read,
                   output_writer, clock, frame_count, start_time,
                   elapsed_time, fps_display, calls, quit>>

\* CreateWriter that opens the writer whether or not --save was given
CreateWriter_Always ==
    /\ pc = "writer"
    /\ output_writer' = "open"
    /\ stdout' = stdout \cup {"Saving output to"}
    /\ pc' = "fps_init"
    /\ UNCHANGED visVars
    /\ UNCHANGED sinkVars
    /\ UNCHANGED <<window_from, argv, args, open_ok, source_len, cap, frames_read, clock,
                   frame_count, start_time, elapsed_time, fps_display, calls,
                   quit>>

\* lines 155-161
CreateWriter ==
    /\ pc = "writer"
    /\ IF args.save
       THEN /\ output_writer' = "open"
            /\ stdout' = stdout \cup {"Saving output to"}
       ELSE /\ output_writer' = "None"
            /\ stdout' = stdout
    /\ pc' = "fps_init"
    /\ UNCHANGED visVars
    /\ UNCHANGED sinkVars
    /\ UNCHANGED <<window_from, argv, args, open_ok, source_len, cap, frames_read, clock,
                   frame_count, start_time, elapsed_time, fps_display, calls,
                   quit>>

\* lines 163-168
FpsInit ==
    /\ pc = "fps_init"
    /\ \E d \in 0..Min(MaxStep, MaxClock - clock) :
          /\ clock' = clock + d
          /\ start_time' = clock + d
    /\ frame_count' = 0
    /\ fps_display' = ZeroFps
    /\ window_from' = frames_read
    /\ stdout' = stdout \cup {"Starting segmentation"}
    /\ pc' = "loop"
    /\ UNCHANGED visVars
    /\ UNCHANGED sinkVars
    /\ UNCHANGED <<argv, args, open_ok, source_len, cap, frames_read,
                   output_writer, elapsed_time, calls, quit>>

\* line 171
LoopTest ==
    /\ pc = "loop"
    /\ pc' = IF cap = "opened" THEN "read" ELSE "release_cap"
    /\ UNCHANGED visVars
    /\ UNCHANGED sinkVars
    /\ UNCHANGED <<window_from, argv, args, open_ok, source_len, cap, frames_read,
                   output_writer, clock, frame_count, start_time,
                   elapsed_time, fps_display, calls, quit, stdout>>

\* Read that also releases the source when the read fails, before the break
Read_ReleasesOnFailure ==
    /\ pc = "read"
    /\ IF frames_read < source_len
       THEN /\ frames_read' = frames_read + 1
            /\ calls' = Called("read")
            /\ stdout' = stdout
            /\ pc' = "tick"
       ELSE /\ frames_read' = frames_read
            /\ calls' = [calls EXCEPT !.read = @ + 1, !.cap_release = @ + 1]
            /\ stdout' = stdout \cup {"Error: Failed to read frame"}
            /\ pc' = "release_cap"
    /\ UNCHANGED visVars
    /\ UNCHANGED sinkVars
    /\ UNCHANGED <<window_from, argv, args, open_ok, source_len, cap,
                   output_writer, clock, frame_count, start_time,
                   elapsed_time, fps_display, quit>>

\* lines 173-177
Read ==
    /\ pc = "read"
    /\ calls' = Called("read")
    /\ IF frames_read < source_len
       THEN /\ frames_read' = frames_read + 1
            /\ stdout' = stdout
            /\ pc' = "tick"
       ELSE /\ frames_read' = frames_read
            /\ stdout' = stdout \cup {"Error: Failed to read frame"}
            /\ pc' = "release_cap"
    /\ UNCHANGED visVars
    /\ UNCHANGED sinkVars
    /\ UNCHANGED <<window_from, argv, args, open_ok, source_len, cap,
                   output_writer, clock, frame_count, start_time,
                   elapsed_time, fps_display, quit>>

\* lines 179-185
Tick ==
    /\ pc = "tick"
    /\ \E d1 \in 0..Min(MaxStep, MaxClock - clock) :
       \E d2 \in 0..Min(MaxStep, MaxClock - (clock + d1)) :
          LET now1 == clock + d1
              now2 == now1 + d2
              r    == FpsTick(frame_count, start_time, fps_display, now1, now2)
          IN  /\ frame_count' = r.frame_count
              /\ start_time' = r.start_time
              /\ fps_display' = r.fps_display
              /\ elapsed_time' = r.elapsed_time
              /\ clock' = IF r.elapsed_time >= TicksPerUnit THEN now2 ELSE now1
              /\ window_from' = IF r.elapsed_time >= TicksPerUnit
                                THEN frames_read ELSE window_from
    /\ pc' = "detect"
    /\ UNCHANGED visVars
    /\ UNCHANGED sinkVars
    /\ UNCHANGED <<argv, args, open_ok, source_len, cap, frames_read,
                   output_writer, calls, quit, stdout>>

\* lines 187-193: the detector returns or raises
Detect ==
    /\ pc = "detect"
    /\ calls' = Called("detect")
    /\ \E raised \in BOOLEAN : pc' = IF raised THEN "raised" ELSE "annotate"
    /\ UNCHANGED visVars
    /\ UNCHANGED sinkVars
    /\ UNCHANGED <<window_from, argv, args, open_ok, source_len, cap, frames_read,
                   output_writer, clock, frame_count, start_time,
                   elapsed_time, fps_display, quit, stdout>>

\* lines 195-205: custom_visualization or results[0].plot returns or raises
Annotate ==
    /\ pc = "annotate"
    /\ calls' = Called("annotate")
    /\ \E raised \in BOOLEAN :
          IF raised
          THEN pc' = "raised" /\ main_annotated_frame' = main_annotated_frame
          ELSE /\ pc' = "overlay"
               /\ main_annotated_frame' = [src |-> frames_read, overlay |-> <<>>]
    /\ UNCHANGED visVars
    /\ UNCHANGED <<displayed, recorded>>
    /\ UNCHANGED <<window_from, argv, args, open_ok, source_len, cap, frames_read,
                   output_writer, clock, frame_count, start_time,
                   elapsed_time, fps_display, quit, stdout>>

\* lines 207-217
Overlay ==
    /\ pc = "overlay"
    /\ calls' = IF args.show_fps THEN Called("overlay") ELSE calls
    /\ main_annotated_frame' =
          IF args.show_fps
          THEN [main_annotated_frame EXCEPT !.overlay = <<Format1f(fps_display)>>]
          ELSE main_annotated_frame
    /\ pc' = "show"
    /\ UNCHANGED visVars
    /\ UNCHANGED <<displayed, recorded>>
    /\ UNCHANGED <<window_from, argv, args, open_ok, source_len, cap, frames_read,
                   output_writer, clock, frame_count, start_time,
                   elapsed_time, fps_display, quit, stdout>>

\* Show that goes on to the key poll, leaving the recording step out
Show_SkipsRecord ==
    /\ pc = "show"
    /\ calls' = Called("show")
    /\ \E raised \in BOOLEAN :
          IF raised
          THEN pc' = "raised" /\ displayed' = displayed
          ELSE pc' = "poll" /\ displayed' = Append(displayed, main_annotated_frame)
    /\ UNCHANGED visVars
    /\ UNCHANGED <<main_annotated_frame, recorded>>
    /\ UNCHANGED <<window_from, argv, args, open_ok, source_len, cap, frames_read,
                   output_writer, clock, frame_count, start_time,
                   elapsed_time, fps_display, quit, stdout>>

\* lines 219-220: imshow returns or raises
Show ==
    /\ pc = "show"
    /\ calls' = Called("show")
    /\ \E raised \in BOOLEAN :
          IF raised
          THEN pc' = "raised" /\ displayed' = displayed
          ELSE pc' = "write" /\ displayed' = Append(displayed, main_annotated_frame)
    /\ UNCHANGED visVars
    /\ UNCHANGED <<main_annotated_frame, recorded>>
    /\ UNCHANGED <<window_from, argv, args, open_ok, source_len, cap, frames_read,
                   output_writer, clock, frame_count, start_time,
                   elapsed_time, fps_display, quit, stdout>>

\* Write that records the frame as it was before the FPS text was drawn
Write_BeforeOverlay ==
    /\ pc = "write"
    /\ IF output_writer # "None"
       THEN /\ calls' = Called("write")
            /\ \E raised \in BOOLEAN :
                  IF raised
                  THEN pc' = "raised" /\ recorded' = recorded
                  ELSE pc' = "poll" /\ recorded' = Append(recorded, [main_annotated_frame EXCEPT !.overlay = <<>>])
       ELSE /\ calls' = calls
            /\ recorded' = recorded
            /\ pc' = "poll"
    /\ UNCHANGED visVars
    /\ UNCHANGED <<main_annotated_frame, displayed>>
    /\ UNCHANGED <<window_from, argv, args, open_ok, source_len, cap, frames_read,
                   output_writer, clock, frame_count, start_time,
                   elapsed_time, fps_display, quit, stdout>>

\* lines 222-224: output_writer.write returns or raises
Write ==
    /\ pc = "write"
    /\ IF output_writer # "None"
       THEN /\ calls' = Called("write")
            /\ \E raised \in BOOLEAN :
                  IF raised
                  THEN pc' = "raised" /\ recorded' = recorded
                  ELSE pc' = "poll" /\ recorded' = Append(recorded, main_annotated_frame)
       ELSE /\ calls' = calls
            /\ recorded' = recorded
            /\ pc' = "poll"
    /\ UNCHANGED visVars
    /\ UNCHANGED <<main_annotated_frame, displayed>>
    /\ UNCHANGED <<window_from, argv, args, open_ok, source_len, cap, frames_read,
                   output_writer, clock, frame_count, start_time,
                   elapsed_time, fps_display, quit, stdout>>

\* Poll that sees the quit key but does not break out of the loop
Poll_IgnoresQuit ==
    /\ pc = "poll"
    /\ calls' = Called("poll")
    /\ \E q \in BOOLEAN :
          /\ quit' = q
          /\ pc' = "loop"
    /\ UNCHANGED visVars
    /\ UNCHANGED sinkVars
    /\ UNCHANGED <<window_from, argv, args, open_ok, source_len, cap, frames_read,
                   output_writer, clock, frame_count, start_time,
                   elapsed_time, fps_display, stdout>>

\* lines 226-228
Poll ==
    /\ pc = "poll"
    /\ calls' = Called("poll")
    /\ \E q \in BOOLEAN :
          /\ quit' = q
          /\ pc' = IF q THEN "release_cap" ELSE "loop"
    /\ UNCHANGED visVars
    /\ UNCHANGED sinkVars
    /\ UNCHANGED <<window_from, argv, args, open_ok, source_len, cap, frames_read,
                   output_writer, clock, frame_count, start_time,
                   elapsed_time, fps_display, stdout>>

\* line 231
ReleaseCap ==
    /\ pc = "release_cap"
    /\ cap' = "released"
    /\ calls' = Called("cap_release")
    /\ pc' = "release_writer"
    /\ UNCHANGED visVars
    /\ UNCHANGED sinkVars
    /\ UNCHANGED <<window_from, argv, args, open_ok, source_len, frames_read,
                   output_writer, clock, frame_count, start_time,
                   elapsed_time, fps_display, quit, stdout>>

\* lines 232-233
ReleaseWriter ==
    /\ pc = "release_writer"
    /\ IF output_writer # "None"
       THEN /\ output_writer' = "released"
            /\ calls' = Called("writer_release")
       ELSE UNCHANGED <<output_writer, calls>>
    /\ pc' = "finish"
    /\ UNCHANGED visVars
    /\ UNCHANGED sinkVars
    /\ UNCHANGED <<window_from, argv, args, open_ok, source_len, cap, frames_read, clock,
                   frame_count, start_time, elapsed_time, fps_display, quit,
                   stdout>>

\* lines 234-236
Finish ==
    /\ pc = "finish"
    /\ stdout' = stdout \cup {"Segmentation finished."}
    /\ pc' = "done"
    /\ UNCHANGED visVars
    /\ UNCHANGED sinkVars
    /\ UNCHANGED <<window_from, argv, args, open_ok, source_len, cap, frames_read,
                   output_writer, clock, frame_count, start_time,
                   elapsed_time, fps_display, calls, quit>>

Next ==
    \/ OpenSource
    \/ CheckOpened
    \/ CreateWriter
    \/ FpsInit
    \/ LoopTest
    \/ Read
    \/ Tick
    \/ Detect
    \/ Annotate
    \/ Overlay
    \/ Show
    \/ Write
    \/ Poll
    \/ ReleaseCap
    \/ ReleaseWriter
    \/ Finish

Spec == Init /\ [][Next]_vars


\* ============================================================================
\* custom_visualization(frame, results, mask_alpha)
\*
\* SpecVis : one call of custom_visualization on a small frame, one action
\*           per statement group.  A pixel is a triple of 8-bit channels; a
\*           frame is a function from Pixels to pixels.  mask_alpha is the
\*           exact fraction n/d, mask probabilities are in percent, box
\*           coordinates in tenths of a pixel, confidences in thousandths.
\* ============================================================================

\* ------------------------------------------------------------------ bounds
\* frame width and height in pixels
FrameW == 4
FrameH == 4
\* width and height of the model's masks (lower resolution than the frame)
MaskW == 2
MaskH == 2
\* most detections in one frame
MaxDets == 2
\* largest class-name table
MaxClasses == 3

Pixels == (0..(FrameW - 1)) \X (0..(FrameH - 1))
Channels == 1..3

Max(a, b) == IF a >= b THEN a ELSE b
Abs(a) == IF a >= 0 THEN a ELSE -a

\* ------------------------------------------------------- numeric conversions
\* saturate_cast<uchar>
Saturate(v) == IF v < 0 THEN 0 ELSE IF v > 255 THEN 255 ELSE v

\* int(x) of a float given in tenths: truncation toward zero
IntOfTenths(t) == IF t >= 0 THEN t \div 10 ELSE -((-t) \div 10)

\* ---------------------------------------------- np.random.seed / randint
\* Stand-in for the Mersenne Twister behind numpy's global generator: a
\* deterministic step function on the generator state.  Only determinism and
\* the range of randint(0, 255) (high end exclusive: 0..254) are relied on.
RngStep(s) == (s * 75 + 74) % 65537
SeedState(seed) == seed % 65537

\* k successive draws from state s: <<values, final state>>
RECURSIVE Draws(_, _)
Draws(s, k) ==
    IF k = 0 THEN [vals |-> <<>>, state |-> s]
    ELSE LET s1   == RngStep(s)
             rest == Draws(s1, k - 1)
         IN  [vals |-> <<s1 % 255>> \o rest.vals, state |-> rest.state]

\* lines 67-68: the colour table, one row per entry of results[0].names
Randint(s, rows) ==
    LET dr == Draws(s, 3 * rows)
    IN  [table |-> [r \in 1..rows |->
                      <<dr.vals[3 * r - 2], dr.vals[3 * r - 1], dr.vals[3 * r]>>],
         state |-> dr.state]

\* line 73: colors[class_id] on a numpy array of `rows` rows.  A negative
\* index counts from the end; only an index outside -rows..rows-1 raises.
IndexInRange(class_id, rows) == -rows <= class_id /\ class_id < rows
ColorLookup(table, class_id) ==
    LET rows == Len(table)
    IN  IF class_id >= 0 THEN table[class_id + 1] ELSE table[rows + class_id + 1]

\* line 97: results[0].names is a dict keyed 0..n-1; any other key raises
ClassNames == << <<"p","e","r","s","o","n">>, <<"b","i","c","y","c","l","e">>,
                 <<"c","a","r">>, <<"m","o","t","o","r","c","y","c","l","e">> >>
NameKnown(names, class_id) == 0 <= class_id /\ class_id < Len(names)

\* --------------------------------------------------------------- cv2.resize
\* Bilinear interpolation (INTER_LINEAR) with pixel centres aligned.  For the
\* destination coordinate dc the source position is (dc + 0.5) * ss/ds - 0.5;
\* s is its floor, f the fraction in units of 1/(2*ds), clamped at the edges.
ResizeCoord(dc, ds, ss) ==
    LET n  == (2 * dc + 1) * ss - ds
        s0 == n \div (2 * ds)
        f0 == n - s0 * (2 * ds)
    IN  IF s0 < 0 THEN [s |-> 0, f |-> 0]
        ELSE IF s0 >= ss - 1 THEN [s |-> ss - 1, f |-> 0]
        ELSE [s |-> s0, f |-> f0]

\* probability (percent) of the resized mask at frame pixel p, times
\* (2*FrameW)*(2*FrameH)
ResizedProb(mask, p) ==
    LET cx == ResizeCoord(p[1], FrameW, MaskW)
        cy == ResizeCoord(p[2], FrameH, MaskH)
        x0 == cx.s
        x1 == Min(cx.s + 1, MaskW - 1)
        y0 == cy.s
        y1 == Min(cy.s + 1, MaskH - 1)
        wx == 2 * FrameW - cx.f
        wy == 2 * FrameH - cy.f
    IN  wx * wy * mask[<<x0, y0>>] + cx.f * wy * mask[<<x1, y0>>]
          + wx * cy.f * mask[<<x0, y1>>] + cx.f * cy.f * mask[<<x1, y1>>]

\* lines 76-77: resize to the frame and threshold at 0.5
MaskBinary(mask) ==
    [p \in Pixels |->
        IF 2 * ResizedProb(mask, p) > 100 * (2 * FrameW) * (2 * FrameH)
        THEN 1 ELSE 0]

\* lines 80-81
ColoredMask(mb, col) ==
    [p \in Pixels |-> IF mb[p] = 1 THEN col ELSE <<0, 0, 0>>]

\* ------------------------------------------------------------ cv2.addWeighted
\* A blend in which the first operand is scaled down by (1 - beta): a convex
\* "over" blend instead of the additive one
AddWeighted_Convex(src1, alpha1, src2, beta, gamma) ==
    [p \in Pixels |-> [c \in Channels |->
        Saturate(RoundHalfEven(src1[p][c] * (beta.d - beta.n) + src2[p][c] * beta.n,
                               beta.d))]]

\* The sum kept modulo 256 (uint8 array arithmetic) instead of saturated
AddWeighted_Wrap(src1, alpha1, src2, beta, gamma) ==
    [p \in Pixels |-> [c \in Channels |->
        RoundHalfEven(src1[p][c] * alpha1.n * beta.d
                        + src2[p][c] * beta.n * alpha1.d
                        + gamma * alpha1.d * beta.d,
                      alpha1.d * beta.d) % 256]]

\* dst = saturate(round(src1*alpha1 + src2*beta + gamma)) per channel, on
\* 8-bit images; alpha1 and beta are fractions [n, d] with d > 0.  The sum is
\* taken exactly; OpenCV forms it in single precision, which can differ only
\* in which neighbour an exact tie is rounded to.
AddWeighted(src1, alpha1, src2, beta, gamma) ==
    [p \in Pixels |-> [c \in Channels |->
        Saturate(RoundHalfEven(src1[p][c] * alpha1.n * beta.d
                                 + src2[p][c] * beta.n * alpha1.d
                                 + gamma * alpha1.d * beta.d,
                               alpha1.d * beta.d))]]

\* ------------------------------------------------------------- cv2.rectangle
InRect(p, xa, ya, xb, yb) ==
    /\ Min(xa, xb) <= p[1] /\ p[1] <= Max(xa, xb)
    /\ Min(ya, yb) <= p[2] /\ p[2] <= Max(ya, yb)

\* pixels of a rectangle outline of thickness 2: each edge covers the line
\* through the corners and the line next to it on the outside
OnOutline(p, xa, ya, xb, yb) ==
    LET xl == Min(xa, xb)
        xr == Max(xa, xb)
        yt == Min(ya, yb)
        yb2 == Max(ya, yb)
    IN  /\ InRect(p, xl - 1, yt - 1, xr, yb2)
        /\ ~(xl < p[1] /\ p[1] < xr - 1 /\ yt < p[2] /\ p[2] < yb2 - 1)

\* cv2.rectangle(img, (xa, ya), (xb, yb), col, thickness); a negative
\* thickness fills the rectangle
Rectangle(img, xa, ya, xb, yb, col, thickness) ==
    [p \in Pixels |->
        IF thickness < 0
        THEN (IF InRect(p, xa, ya, xb, yb) THEN col ELSE img[p])
        ELSE (IF OnOutline(p, xa, ya, xb, yb) THEN col ELSE img[p])]

\* ------------------------------------------------- label text and its raster
Digits == <<"0", "1", "2", "3", "4", "5", "6", "7", "8", "9">>

\* f"{confidence:.2f}" for a confidence given in thousandths
Format2f(conf) ==
    LET h == RoundHalfEven(conf, 10)
    IN  <<Digits[(h \div 100) + 1], ".", Digits[((h \div 10) % 10) + 1],
          Digits[(h % 10) + 1]>>

\* line 99
LabelText(class_name, conf) == class_name \o <<" ">> \o Format2f(conf)

\* line 102: cv2.getTextSize at FONT_HERSHEY_SIMPLEX, scale 0.5, thickness 2;
\* every glyph is taken 10 pixels wide and 11 pixels high
GetTextSize(text) == [w |-> 10 * Len(text), h |-> 11]

\* lines 115-123: cv2.putText with the baseline origin (ox, oy).  The glyph
\* strokes are abstracted to every other pixel of the text's bounding box.
PutText(img, text, ox, oy, col) ==
    LET ts == GetTextSize(text)
    IN  [p \in Pixels |->
            IF /\ InRect(p, ox, oy - ts.h + 1, ox + ts.w - 1, oy)
               /\ (p[1] - ox + p[2]) % 2 = 0
            THEN col ELSE img[p]]

\* lines 92-94
DrawBox(img, box, col) ==
    Rectangle(img, IntOfTenths(box[1]), IntOfTenths(box[2]),
              IntOfTenths(box[3]), IntOfTenths(box[4]), col, 2)

\* lines 101-123
DrawLabel(img, box, text, col) ==
    LET x1 == IntOfTenths(box[1])
        y1 == IntOfTenths(box[2])
        ts == GetTextSize(text)
        bg == Rectangle(img, x1, y1 - ts.h - 8, x1 + ts.w + 8, y1, col, -1)
    IN  PutText(bg, text, x1 + 4, y1 - 4, <<255, 255, 255>>)

\* ------------------------------------------------------------------- inputs
One == [n |-> 1, d |-> 1]

\* mask_alpha: the default 0.3, 0, 0.5, 1, and values outside [0, 1]
Alphas == {[n |-> 3, d |-> 10], [n |-> 0, d |-> 1], [n |-> 1, d |-> 2], One,
           [n |-> 3, d |-> 2], [n |-> -1, d |-> 2], [n |-> -3, d |-> 10]}

MaskCells == (0..(MaskW - 1)) \X (0..(MaskH - 1))
MaskFull == [m \in MaskCells |-> 100]
MaskLeft == [m \in MaskCells |-> IF m[1] = 0 THEN 100 ELSE 0]
MaskTop  == [m \in MaskCells |-> IF m[2] = 0 THEN 90 ELSE 10]
\* exactly at the threshold: nothing is covered
MaskHalf == [m \in MaskCells |-> 50]

Det(m, b, c, k) == [mask |-> m, box |-> b, class_id |-> c, conf |-> k]

\* detections the model may return; the last three carry a class id outside
\* the class-name table
DetPool ==
    { Det(MaskFull, <<0, 0, 20, 20>>, 0, 900),
      Det(MaskLeft, <<15, 12, 39, 39>>, MaxClasses - 1, 256),
      Det(MaskTop, <<12, 20, 30, 30>>, 1, 745),
      Det(MaskHalf, <<10, 10, 30, 30>>, 0, 995),
      Det(MaskTop, <<0, 10, 25, 35>>, -1, 500),
      Det(MaskFull, <<5, 5, 20, 20>>, MaxClasses, 125),
      Det(MaskLeft, <<0, 0, 10, 10>>, -(MaxClasses + 1), 1000) }

RECURSIVE SeqsUpTo(_, _)
SeqsUpTo(S, k) ==
    IF k = 0 THEN {<<>>}
    ELSE LET shorter == SeqsUpTo(S, k - 1)
         IN  shorter \cup {Append(q, e) : q \in shorter, e \in S}

Gradient == [p \in Pixels |->
                <<(17 * p[1] + 40 * p[2]) % 256, (250 + p[1] + 2 * p[2]) % 256,
                  (3 * p[1] + 127 * p[2]) % 256>>]

InputFrames == {[p \in Pixels |-> <<0, 0, 0>>], [p \in Pixels |-> <<254, 128, 1>>],
                [p \in Pixels |-> <<255, 255, 255>>], Gradient}

InputResults ==
    {[masks_none |-> TRUE, dets |-> <<>>, names |-> SubSeq(ClassNames, 1, n)] :
        n \in 1..MaxClasses}
    \cup
    {[masks_none |-> FALSE, dets |-> ds, names |-> SubSeq(ClassNames, 1, n)] :
        ds \in SeqsUpTo(DetPool, MaxDets), n \in 1..MaxClasses}

\* states the global generator may be in when custom_visualization is called:
\* after draws made elsewhere, or as an earlier call left it
RngStates == {12345, Randint(SeedState(42), MaxClasses).state}

\* main() is at line 197, about to call custom_visualization
MainAtAnnotate ==
    /\ pc = "annotate"
    /\ argv = {"--custom-visualization"}
    /\ args = parse_arguments(argv)
    /\ open_ok = TRUE
    /\ source_len = 1
    /\ cap = "opened"
    /\ frames_read = 1
    /\ output_writer = "None"
    /\ clock = 0
    /\ frame_count = 1
    /\ start_time = 0
    /\ elapsed_time = 0
    /\ fps_display = ZeroFps
    /\ calls = [NoCalls EXCEPT !.read = 1, !.detect = 1]
    /\ quit = FALSE
    /\ window_from = 0
    /\ stdout = {"Opening video source", "Starting segmentation"}
    /\ main_annotated_frame = NoFrame
    /\ displayed = <<>>
    /\ recorded = <<>>

InitVis ==
    /\ MainAtAnnotate
    /\ vpc = "start"
    /\ frame \in InputFrames
    /\ results \in InputResults
    /\ mask_alpha \in Alphas
    /\ rng \in RngStates
    /\ rng_entry = rng
    /\ annotated_frame = <<>>
    /\ colors = <<>>
    /\ i = 0
    /\ color = <<>>
    /\ mask_binary = <<>>
    /\ label = <<>>
    /\ blend_src = <<>>
    /\ ret = <<>>
    /\ verr = "none"

\* ------------------------------------------------------------------ actions
\* a blank canvas (np.zeros_like) in place of frame.copy()
VisStart_ZerosLike ==
    /\ vpc = "start"
    /\ annotated_frame' = [p \in Pixels |-> <<0, 0, 0>>]
    /\ IF results.masks_none
       THEN /\ vpc' = "return"
            /\ UNCHANGED <<colors, rng, i>>
       ELSE LET r == Randint(SeedState(42), Len(results.names))
            IN  /\ colors' = r.table
                /\ rng' = r.state
                /\ i' = 1
                /\ vpc' = "loop"
    /\ UNCHANGED <<frame, results, mask_alpha, color, mask_binary, label,
                   blend_src, ret, verr>>
    /\ UNCHANGED rng_entry
    /\ UNCHANGED mainVars

\* the colour table drawn without seeding the generator first
VisStart_NoSeed ==
    /\ vpc = "start"
    /\ annotated_frame' = frame
    /\ IF results.masks_none
       THEN /\ vpc' = "return"
            /\ UNCHANGED <<colors, rng, i>>
       ELSE LET r == Randint(rng, Len(results.names))
            IN  /\ colors' = r.table
                /\ rng' = r.state
                /\ i' = 1
                /\ vpc' = "loop"
    /\ UNCHANGED <<frame, results, mask_alpha, color, mask_binary, label,
                   blend_src, ret, verr>>
    /\ UNCHANGED rng_entry
    /\ UNCHANGED mainVars

\* lines 57-68
VisStart ==
    /\ vpc = "start"
    /\ annotated_frame' = frame
    /\ IF results.masks_none
       THEN /\ vpc' = "return"
            /\ UNCHANGED <<colors, rng, i>>
       ELSE LET r == Randint(SeedState(42), Len(results.names))
            IN  /\ colors' = r.table
                /\ rng' = r.state
                /\ i' = 1
                /\ vpc' = "loop"
    /\ UNCHANGED <<frame, results, mask_alpha, color, mask_binary, label,
                   blend_src, ret, verr>>
    /\ UNCHANGED rng_entry
    /\ UNCHANGED mainVars

\* line 71
VisLoop ==
    /\ vpc = "loop"
    /\ vpc' = IF i <= Len(results.dets) THEN "lookup" ELSE "return"
    /\ UNCHANGED <<frame, results, mask_alpha, rng, annotated_frame, colors, i,
                   color, mask_binary, label, blend_src, ret, verr>>
    /\ UNCHANGED rng_entry
    /\ UNCHANGED mainVars

\* lines 72-73
VisLookup ==
    /\ vpc = "lookup"
    /\ LET class_id == results.dets[i].class_id
       IN  IF IndexInRange(class_id, Len(colors))
           THEN /\ color' = ColorLookup(colors, class_id)
                /\ verr' = verr
                /\ vpc' = "blend"
           ELSE /\ color' = color
                /\ verr' = "IndexError"
                /\ vpc' = "raised"
    /\ UNCHANGED <<frame, results, mask_alpha, rng, annotated_frame, colors, i,
                   mask_binary, label, blend_src, ret>>
    /\ UNCHANGED rng_entry
    /\ UNCHANGED mainVars

\* lines 75-90
VisBlend ==
    /\ vpc = "blend"
    /\ LET mb == MaskBinary(results.dets[i].mask)
       IN  /\ mask_binary' = mb
           /\ blend_src' = annotated_frame
           /\ annotated_frame' =
                 AddWeighted(annotated_frame, One, ColoredMask(mb, color),
                             mask_alpha, 0)
    /\ vpc' = "box"
    /\ UNCHANGED <<frame, results, mask_alpha, rng, colors, i, color, label,
                   ret, verr>>
    /\ UNCHANGED rng_entry
    /\ UNCHANGED mainVars

\* the box drawn on the frame that was passed in, not on the copy
VisBox_DrawsOnFrame ==
    /\ vpc = "box"
    /\ frame' = DrawBox(frame, results.dets[i].box, color)
    /\ vpc' = "label"
    /\ UNCHANGED <<results, mask_alpha, rng, annotated_frame, colors, i, color,
                   mask_binary, label, blend_src, ret, verr>>
    /\ UNCHANGED rng_entry
    /\ UNCHANGED mainVars

\* lines 92-94
VisBox ==
    /\ vpc = "box"
    /\ annotated_frame' = DrawBox(annotated_frame, results.dets[i].box, color)
    /\ vpc' = "label"
    /\ UNCHANGED <<frame, results, mask_alpha, rng, colors, i, color,
                   mask_binary, label, blend_src, ret, verr>>
    /\ UNCHANGED rng_entry
    /\ UNCHANGED mainVars

\* lines 96-99
VisLabel ==
    /\ vpc = "label"
    /\ LET det == results.dets[i]
       IN  IF NameKnown(results.names, det.class_id)
           THEN /\ label' = LabelText(results.names[det.class_id + 1], det.conf)
                /\ verr' = verr
                /\ vpc' = "draw_label"
           ELSE /\ label' = label
                /\ verr' = "KeyError"
                /\ vpc' = "raised"
    /\ UNCHANGED <<frame, results, mask_alpha, rng, annotated_frame, colors, i,
                   color, mask_binary, blend_src, ret>>
    /\ UNCHANGED rng_entry
    /\ UNCHANGED mainVars

\* lines 101-123
VisDrawLabel ==
    /\ vpc = "draw_label"
    /\ annotated_frame' =
          DrawLabel(annotated_frame, results.dets[i].box, label, color)
    /\ i' = i + 1
    /\ vpc' = "loop"
    /\ UNCHANGED <<frame, results, mask_alpha, rng, colors, color, mask_binary,
                   label, blend_src, ret, verr>>
    /\ UNCHANGED rng_entry
    /\ UNCHANGED mainVars

\* line 125
VisReturn ==
    /\ vpc = "return"
    /\ ret' = annotated_frame
    /\ vpc' = "returned"
    /\ UNCHANGED <<frame, results, mask_alpha, rng, annotated_frame, colors, i,
                   color, mask_binary, label, blend_src, verr>>
    /\ UNCHANGED rng_entry
    /\ UNCHANGED mainVars

NextVis ==
    \/ VisStart
    \/ VisLoop
    \/ VisLookup
    \/ VisBlend
    \/ VisBox
    \/ VisLabel
    \/ VisDrawLabel
    \/ VisReturn

SpecVis == InitVis /\ [][NextVis]_vars

\* ------------------------------------------------------- claims about main()
OpenedOk == cap \in {"opened", "released"}
LeftMain == pc \in {"done", "raised"}

\* C1: on every path by which main() leaves the loop after the source was
\* opened (end-of-stream, quit key, or an error raised by the detector, the
\* renderer, the display or the recording sink), the source has been released
\* and then, if a recording sink was opened, the sink, before control returns.
C1_ReleasedOnEveryExit ==
    /\ (LeftMain /\ OpenedOk) =>
          /\ cap = "released"
          /\ calls.cap_release = 1
          /\ (output_writer # "None" => output_writer = "released")
    /\ (output_writer = "released" => cap = "released")

\* C2: when the source yields exactly N frames and then end-of-stream, and no
\* quit key is pressed, a run that ends at end-of-stream has invoked the
\* detector N times and the annotation step N times, has released the source
\* once and the recording sink once when recording is enabled.
C2_CountsAtEndOfStream ==
    (pc = "done" /\ OpenedOk /\ ~quit) =>
        /\ calls.detect = source_len
        /\ calls.annotate = source_len
        /\ calls.cap_release = 1
        /\ calls.writer_release = (IF args.save THEN 1 ELSE 0)

C2_Witness ==
    /\ pc = "done" /\ ~quit /\ args.save
    /\ source_len = MaxFrames
    /\ calls.detect = MaxFrames /\ calls.annotate = MaxFrames
    /\ calls.cap_release = 1 /\ calls.writer_release = 1

TickStep == pc = "tick" /\ pc' = "detect"

\* C3: a tick at time now increments count; if now - windowStart >= 1.0 it
\* sets displayed = count / (now - windowStart), resets count to 0 and sets
\* windowStart to that same now; otherwise only count is incremented.
C3_WindowStartIsNow ==
    [][TickStep =>
         LET now == start_time + elapsed_time'
         IN  IF now - start_time >= TicksPerUnit
             THEN /\ fps_display' = [n |-> frame_count + 1, d |-> now - start_time]
                  /\ frame_count' = 0
                  /\ start_time' = now
             ELSE /\ frame_count' = frame_count + 1
                  /\ start_time' = start_time
                  /\ fps_display' = fps_display]_vars

\* the displayed rate equals the whole number k
FpsIs(disp, k) == disp.n * TicksPerUnit = k * disp.d

\* C4: the displayed FPS is 0 before the first window boundary, changes only
\* on a tick at which the window has reached one time unit, and a window of
\* exactly one time unit that contains N ticks displays N.
C4_DisplayedOnlyAtBoundaries ==
    /\ FpsIs(fps_display, 0)
    /\ [][/\ (fps_display' # fps_display) =>
                (TickStep /\ elapsed_time' >= TicksPerUnit)
          /\ (TickStep /\ elapsed_time' = TicksPerUnit) =>
                FpsIs(fps_display', frames_read - window_from)]_vars

\* two frames counted in a window of exactly one time unit, after an earlier
\* window: the display shows 2
C4_Witness ==
    /\ pc = "detect"
    /\ elapsed_time = TicksPerUnit
    /\ window_from = frames_read
    /\ frames_read = 3
    /\ FpsIs(fps_display, 2)

\* C5: if opening the source fails, main() reports it and returns without
\* entering the loop: no frame is read, the detector is never invoked, no
\* recording sink is opened and nothing is shown.
C5_OpenFailureStopsBeforeLoop ==
    (cap = "closed") =>
        /\ pc \in {"check_open", "done"}
        /\ calls = NoCalls
        /\ frames_read = 0
        /\ output_writer = "None"
        /\ (pc = "done" => "Error: Could not open video source" \in stdout)

C5_Witness ==
    /\ pc = "done" /\ cap = "closed" /\ args.save
    /\ "Error: Could not open video source" \in stdout

\* ---------------------------------------- claims about custom_visualization
\* v is an 8-bit value nearest to clamp(numer/den, 0, 255), den > 0
ClampNumer(numer, den) ==
    IF numer < 0 THEN 0 ELSE IF numer > 255 * den THEN 255 * den ELSE numer
Nearest8(v, numer, den) ==
    /\ v \in 0..255
    /\ 2 * Abs(v * den - ClampNumer(numer, den)) <= den

\* pixels that the box outline or the label of a detection is drawn on
DrawnOver(det, text) ==
    LET blank == [q \in Pixels |-> <<-1, -1, -1>>]
        drawn == DrawLabel(DrawBox(blank, det.box, <<0, 0, 0>>), det.box, text,
                           <<0, 0, 0>>)
    IN  {q \in Pixels : drawn[q] # <<-1, -1, -1>>}

\* the second detection has just been composited
AfterSecondBlend == vpc = "box" /\ i = 2

\* pixels covered by the thresholded masks of both detections and carrying no
\* box or label of the first
BothCover ==
    LET d1 == results.dets[1]
    IN  {p \in Pixels :
            /\ mask_binary[p] = 1
            /\ MaskBinary(d1.mask)[p] = 1
            /\ p \notin DrawnOver(d1, LabelText(results.names[d1.class_id + 1],
                                               d1.conf))}

\* frame[p] + alpha*C1 + alpha*C2 for channel c, as a numerator over mask_alpha.d
TotalNumer(p, c) ==
    frame[p][c] * mask_alpha.d
      + mask_alpha.n * ColorLookup(colors, results.dets[1].class_id)[c]
      + mask_alpha.n * color[c]

\* C6 as stated: two detections composited in order over a pixel both masks
\* cover give clamp(frame[p] + alpha*C1 + alpha*C2, 0, 255) per channel (taken
\* to the nearest 8-bit value): clamping each step gives the clamp of the sum.
C6_TwoCompositesOneClamp ==
    (AfterSecondBlend /\ NameKnown(results.names, results.dets[2].class_id)) =>
        \A p \in BothCover : \A c \in Channels :
            Nearest8(annotated_frame[p][c], TotalNumer(p, c), mask_alpha.d)

\* C6 amended: each composite step rounds to 8 bits before the next, so the
\* result is within 1 of the rounded, clamped total sum, and equals it when
\* alpha*C1 and alpha*C2 are whole numbers.
C6_TwoCompositesWithinOne ==
    AfterSecondBlend =>
        \A p \in BothCover : \A c \in Channels :
            LET v     == annotated_frame[p][c]
                whole == Saturate(RoundHalfEven(TotalNumer(p, c), mask_alpha.d))
                c1    == ColorLookup(colors, results.dets[1].class_id)[c]
            IN  /\ v \in 0..255
                /\ Abs(v - whole) <= 1
                /\ ((mask_alpha.n * c1) % mask_alpha.d = 0
                      /\ (mask_alpha.n * color[c]) % mask_alpha.d = 0)
                   => v = whole

\* two overlapping detections where step-wise rounding shows: some channel is
\* one off the rounded total
C6_Witness ==
    /\ AfterSecondBlend
    /\ \E p \in BothCover : \E c \in Channels :
          Abs(annotated_frame[p][c]
                - Saturate(RoundHalfEven(TotalNumer(p, c), mask_alpha.d))) = 1

\* C7: one composite step gives, at every pixel the thresholded mask covers,
\* clamp(frame[p] + alpha*color, 0, 255) per channel (as an 8-bit value), and
\* leaves every pixel the mask does not cover as it was before the step.
C7_SingleComposite ==
    (vpc = "box") =>
        \A p \in Pixels :
            IF mask_binary[p] = 1
            THEN \A c \in Channels :
                    Nearest8(annotated_frame[p][c],
                             blend_src[p][c] * mask_alpha.d + mask_alpha.n * color[c],
                             mask_alpha.d)
            ELSE annotated_frame[p] = blend_src[p]

\* a first detection whose mask covers some pixels and not others, and whose
\* composite changed a covered pixel
C7_Witness ==
    /\ vpc = "box" /\ i = 1
    /\ blend_src = frame
    /\ \E p \in Pixels : mask_binary[p] = 1 /\ annotated_frame[p] # frame[p]
    /\ \E p \in Pixels : mask_binary[p] = 0

NoDetections == results.masks_none \/ Len(results.dets) = 0

\* C8: with an empty detection sequence (no masks, or a zero-length mask list)
\* the call returns a frame equal to the input frame, pixel for pixel, and no
\* label is produced.
C8_EmptyDetectionsReturnFrame ==
    (NoDetections /\ vpc \in {"return", "returned", "raised"}) =>
        /\ vpc # "raised"
        /\ annotated_frame = frame
        /\ (vpc = "returned" => ret = frame)
        /\ label = <<>>

C8_Witness ==
    /\ vpc = "returned"
    /\ ~results.masks_none /\ Len(results.dets) = 0
    /\ frame = Gradient
    /\ ret = frame

\* C9: the colour lookup is bounds-checked: for every class_id outside
\* 0 <= class_id < numClasses, negative ones included, the lookup raises and
\* never yields the colour of another class.
C9_LookupBoundsChecked ==
    (vpc = "blend") =>
        (0 <= results.dets[i].class_id /\ results.dets[i].class_id < Len(colors))

\* the label text the configuration asks for
ConfiguredLabel(class_name, conf, show_labels, show_conf) ==
    IF show_labels /\ show_conf THEN class_name \o <<" ">> \o Format2f(conf)
    ELSE IF show_labels THEN class_name
    ELSE Format2f(conf)

C11_StagesInOrder ==
    /\ calls.read >= frames_read
    /\ frames_read >= calls.detect
    /\ calls.detect >= calls.annotate
    /\ calls.annotate >= calls.show
    /\ IF output_writer # "None"
       THEN calls.show >= calls.write /\ calls.write >= calls.poll
       ELSE calls.write = 0 /\ calls.show >= calls.poll
    /\ calls.read <= calls.poll + 1

\* two full iterations with recording, back at the loop head
C11_Witness ==
    /\ pc = "loop"
    /\ frames_read = 2 /\ calls.detect = 2 /\ calls.annotate = 2
    /\ calls.show = 2 /\ calls.write = 2 /\ calls.poll = 2


\* C13: the quit signal is polled exactly once per full iteration, after the
\* display and record stages; once a poll observes the quit key the loop goes
\* to Stopped and no further frame is acquired, detected, displayed or
\* recorded.
C13_QuitPolledOncePerIteration ==
    /\ [](pc = "loop" => calls.poll = frames_read)
    /\ [][/\ (calls'.poll # calls.poll) =>
                /\ calls'.poll = calls.poll + 1
                /\ frames_read = calls.poll + 1
                /\ calls.show = calls.poll + 1
                /\ (output_writer # "None" => calls.write = calls.poll + 1)
          /\ (quit' /\ ~quit) =>
                (calls'.poll = calls.poll + 1 /\ pc' = "release_cap")
          /\ quit =>
                /\ quit'
                /\ pc' \notin {"loop", "read", "tick", "detect", "annotate",
                               "overlay", "show", "write", "poll"}
                /\ frames_read' = frames_read
                /\ calls'.read = calls.read
                /\ calls'.detect = calls.detect
                /\ calls'.annotate = calls.annotate
                /\ calls'.show = calls.show
                /\ calls'.write = calls.write
                /\ calls'.poll = calls.poll]_vars

\* the quit key was seen after the second of three frames and main() returned
C13_Witness ==
    /\ pc = "done" /\ quit
    /\ source_len = 3 /\ frames_read = 2 /\ calls.read = 2
    /\ calls.show = 2 /\ calls.poll = 2


\* C17: no operation uses a resource outside its lifetime: the source is
\* read only while it is opened, never before a successful open nor after its
\* release; the recording sink is opened at most once, only after the source
\* opened successfully and only when saving is enabled, and it is written only
\* while open, never after its release.
C17_ResourcesUsedInLifetime ==
    [][/\ (calls'.read # calls.read) => cap = "opened"
       /\ (calls'.write # calls.write) => output_writer = "open"
       /\ (output_writer' = "open" /\ output_writer # "open") =>
             /\ output_writer = "None"
             /\ pc = "writer"
             /\ cap = "opened"
             /\ args.save
       /\ (output_writer = "released") => (output_writer' = "released")
       /\ (cap = "released") => (cap' = "released")
       /\ (cap' = "opened" /\ cap # "opened") => (cap = "none" /\ open_ok)]_vars

\* a saving run read the whole source, wrote frames and released both resources
C17_Witness ==
    /\ pc = "done"
    /\ cap = "released" /\ output_writer = "released"
    /\ calls.read = 3 /\ calls.write = 2
    /\ calls.cap_release = 1 /\ calls.writer_release = 1

\* C12: with recording enabled, every frame shown is also written in the same
\* iteration with the same content, FPS text included, so that whenever the
\* write of an iteration has returned the recorded sequence equals the
\* displayed sequence; with recording disabled nothing is ever written.  Each
\* shown frame is the annotation of that iteration's capture.
C12_RecordedEqualsDisplayed ==
    /\ (output_writer = "None") => recorded = <<>>
    /\ Len(recorded) <= Len(displayed)
    /\ \A k \in 1..Len(recorded) : recorded[k] = displayed[k]
    /\ \A k \in 1..Len(displayed) :
          /\ displayed[k].src = k
          /\ (displayed[k].overlay = <<>>) <=> ~args.show_fps
    /\ (output_writer # "None") =>
          /\ Len(displayed) <= Len(recorded) + 1
          /\ (pc \notin {"write", "raised"}) => recorded = displayed
          /\ Len(recorded) = calls.poll \/ pc \in {"poll", "raised"}

\* two frames carrying different FPS texts were shown and recorded
C12_Witness ==
    /\ pc = "loop"
    /\ args.save /\ args.show_fps
    /\ Len(recorded) = 2 /\ recorded = displayed
    /\ recorded[1].overlay # recorded[2].overlay

\* ------------------------------ more claims about custom_visualization()
\* C15: the masks of all detections are composited before any box or label is
\* drawn: compositing the mask of a later detection leaves every pixel of the
\* box outline and label of an earlier detection as it was (stated for
\* class ids of the table and mask_alpha in (0, 1]).
C15_MasksBeforeBoxes ==
    (/\ AfterSecondBlend
     /\ NameKnown(results.names, results.dets[2].class_id)
     /\ 0 < mask_alpha.n /\ mask_alpha.n <= mask_alpha.d) =>
        \A p \in DrawnOver(results.dets[1], label) :
            annotated_frame[p] = blend_src[p]

\* C16: custom_visualization never modifies the frame it is given: no step of
\* the call changes a pixel of the caller's frame, for any detection sequence;
\* masks, boxes and labels go to the copy that is returned, so the frame the
\* detector was given stays free of annotation.
C16_InputFrameUntouched ==
    [][/\ frame' = frame
       /\ (vpc' = "returned" /\ vpc # "returned") => ret' = annotated_frame]_vars

\* two detections were drawn into the returned frame and the input differs
\* from it
C16_Witness ==
    /\ vpc = "returned"
    /\ Len(results.dets) = 2
    /\ frame = Gradient
    /\ \A p \in Pixels : ret[p] # frame[p]

\* C14: the colour of a class is a pure function of (class id, number of
\* classes, seed): the colour table and the colour looked up for a class id of
\* the table are the same in every call, whatever state earlier random draws or
\* earlier calls left the generator in.
ColorFor(class_id, numClasses, seed) ==
    Randint(SeedState(seed), numClasses).table[class_id + 1]

C14_ColorIsPureFunction ==
    /\ (colors # <<>>) =>
          /\ Len(colors) = Len(results.names)
          /\ \A c \in 1..Len(colors) :
                colors[c] = ColorFor(c - 1, Len(results.names), 42)
    /\ (/\ vpc \in {"blend", "box", "label", "draw_label"}
        /\ NameKnown(results.names, results.dets[i].class_id)) =>
          color = ColorFor(results.dets[i].class_id, Len(results.names), 42)

\* the second detection's colour was looked up in a call that began with the
\* generator in a state other draws had left
C14_Witness ==
    /\ vpc = "blend" /\ i = 2
    /\ rng_entry = 12345
    /\ results.dets[1].class_id # results.dets[2].class_id
    /\ NameKnown(results.names, results.dets[2].class_id)
    /\ color = ColorFor(results.dets[2].class_id, Len(results.names), 42)

====
